---------------------------- MODULE Spec2Model ----------------------------
(***************************************************************************)
(* Model of the Database editor: the Schema Manager (src/src/database/     *)
(* models.py, TableFactory) and the Query Interpreter                      *)
(* (src/src/database/querries.py, QueryExecutor).                          *)
(*                                                                         *)
(* Text is modelled as a sequence of one-character strings, so that the    *)
(* regular expressions, str.lower, str.strip and str.split of the source   *)
(* are computed character by character.                                    *)
(***************************************************************************)
EXTENDS Integers, Sequences, FiniteSets, TLC

VARIABLES
    descriptor,   \* SpecTypes: the type descriptor under test
    mapped,       \* SpecTypes: result of map_column_types(descriptor)
    valid,        \* SpecTypes: result of valid_col_type(descriptor)
    condParts,    \* SpecParse: the segments the condition text was written from
    condText,     \* SpecParse: the condition text handed to _parse_conditions
    filters,      \* SpecParse: result of _parse_conditions
    catalog,      \* Storage Engine catalog: table name -> ordered columns
    rows,         \* Storage Engine: the committed rows of every table
    pending,      \* the shared session's transaction: rows as its statements left them
    session,      \* the shared session: "active", or "prepared" after a failed commit
    cmd,          \* the statement as the operator wrote it (its parts)
    text,         \* the statement text handed to execute_query
    outcome,      \* what execute_query returned or raised
    calls,        \* the Storage Engine calls execute_query made, in order
    metadata,     \* Base.metadata.tables: the tables declared in this process
    call,         \* the last Schema Manager call: operation, table name, columns
    result        \* what that call returned or raised

vars == <<descriptor, mapped, valid, condParts, condText, filters,
          catalog, rows, pending, session, cmd, text, outcome, calls,
          metadata, call, result>>

(***************************************************************************)
(* Characters and text helpers (Python str methods).                       *)
(***************************************************************************)
UpperChars == <<"A","B","C","D","E","F","G","H","I","J","K","L","M",
                "N","O","P","Q","R","S","T","U","V","W","X","Y","Z">>

LowerChars == <<"a","b","c","d","e","f","g","h","i","j","k","l","m",
                "n","o","p","q","r","s","t","u","v","w","x","y","z">>

DigitChars == <<"0","1","2","3","4","5","6","7","8","9">>

Range(s) == {s[i] : i \in 1..Len(s)}

UpperSet == Range(UpperChars)

LowerSet == Range(LowerChars)

DigitSet == Range(DigitChars)

WordSet == UpperSet \cup LowerSet \cup DigitSet \cup {"_"}

SpaceSet == {" ", "\t"}

LowerOf == [c \in UpperSet |-> LowerChars[CHOOSE i \in 1..Len(UpperChars) : UpperChars[i] = c]]

UpperOf == [c \in LowerSet |-> UpperChars[CHOOSE i \in 1..Len(LowerChars) : LowerChars[i] = c]]

DigitOf == [c \in DigitSet |-> CHOOSE d \in 0..9 : DigitChars[d + 1] = c]

IsDigit(c) == c \in DigitSet

\* \w of the re module: letters, digits and the underscore
IsWordChar(c) == c \in WordSet

\* \s of the re module, and the characters str.strip() removes
IsSpace(c) == c \in SpaceSet

LowerChar(c) == IF c \in UpperSet THEN LowerOf[c] ELSE c

UpperChar(c) == IF c \in LowerSet THEN UpperOf[c] ELSE c

\* str.lower()
Lower(s) == [i \in 1..Len(s) |-> LowerChar(s[i])]

Upper(s) == [i \in 1..Len(s) |-> UpperChar(s[i])]

Capitalize(s) == [i \in 1..Len(s) |-> IF i = 1 THEN UpperChar(s[i]) ELSE s[i]]

\* s[i:] of Python, with i counted from 1
From(s, i) == SubSeq(s, i, Len(s))

\* str.startswith(p)
StartsWith(s, p) == Len(s) >= Len(p) /\ SubSeq(s, 1, Len(p)) = p

\* whether p occurs in s at position i
OccursAt(s, p, i) == i >= 1 /\ i + Len(p) - 1 <= Len(s) /\ SubSeq(s, i, i + Len(p) - 1) = p

\* number of leading characters of s that satisfy the test
RECURSIVE SpanSpace(_, _)
SpanSpace(s, i) == IF i <= Len(s) /\ IsSpace(s[i]) THEN 1 + SpanSpace(s, i + 1) ELSE 0

RECURSIVE SpanWord(_, _)
SpanWord(s, i) == IF i <= Len(s) /\ IsWordChar(s[i]) THEN 1 + SpanWord(s, i + 1) ELSE 0

RECURSIVE SpanDigit(_, _)
SpanDigit(s, i) == IF i <= Len(s) /\ IsDigit(s[i]) THEN 1 + SpanDigit(s, i + 1) ELSE 0

RECURSIVE RStrip(_)
RStrip(s) == IF Len(s) > 0 /\ IsSpace(s[Len(s)]) THEN RStrip(SubSeq(s, 1, Len(s) - 1)) ELSE s

\* str.strip()
Strip(s) == RStrip(From(s, 1 + SpanSpace(s, 1)))

RECURSIVE LStripQuote(_)
LStripQuote(s) == IF Len(s) > 0 /\ s[1] = "'" THEN LStripQuote(Tail(s)) ELSE s

RECURSIVE RStripQuote(_)
RStripQuote(s) == IF Len(s) > 0 /\ s[Len(s)] = "'" THEN RStripQuote(SubSeq(s, 1, Len(s) - 1)) ELSE s

\* str.strip("'")
StripQuote(s) == RStripQuote(LStripQuote(s))

\* str.split(sep) with an explicit separator: the pieces between the
\* non-overlapping occurrences of sep, scanned from the left
RECURSIVE SplitFrom(_, _, _, _)
SplitFrom(s, sep, start, i) ==
    IF i + Len(sep) - 1 > Len(s) THEN <<SubSeq(s, start, Len(s))>>
    ELSE IF OccursAt(s, sep, i)
         THEN <<SubSeq(s, start, i - 1)>> \o SplitFrom(s, sep, i + Len(sep), i + Len(sep))
         ELSE SplitFrom(s, sep, start, i + 1)

Split(s, sep) == SplitFrom(s, sep, 1, 1)

\* int() of a run of decimal digits
RECURSIVE DigitsValue(_)
DigitsValue(s) ==
    IF Len(s) = 0 THEN 0
    ELSE 10 * DigitsValue(SubSeq(s, 1, Len(s) - 1))
         + DigitOf[s[Len(s)]]

RECURSIVE Concat(_)
Concat(ss) == IF Len(ss) = 0 THEN <<>> ELSE Head(ss) \o Concat(Tail(ss))

RECURSIVE Join(_, _)
Join(ss, sep) == IF Len(ss) = 0 THEN <<>>
                 ELSE IF Len(ss) = 1 THEN ss[1]
                 ELSE ss[1] \o sep \o Join(Tail(ss), sep)

(***************************************************************************)
(* Schema Manager: type descriptors (models.py).                           *)
(***************************************************************************)
T_int      == <<"i","n","t">>
T_integer  == <<"i","n","t","e","g","e","r">>
T_bool     == <<"b","o","o","l">>
T_boolean  == <<"b","o","o","l","e","a","n">>
T_decimal  == <<"d","e","c","i","m","a","l">>
T_money    == <<"m","o","n","e","y">>
T_datetime == <<"d","a","t","e","t","i","m","e">>
T_str      == <<"s","t","r">>
T_varchar  == <<"v","a","r","c","h","a","r">>
T_nvarchar == <<"n","v","a","r","c","h","a","r">>
T_string   == <<"s","t","r","i","n","g">>

VALID_COL_TYPES == <<T_int, T_integer, T_bool, T_boolean, T_decimal, T_money, T_datetime>>

STRING_COL_TYPES == <<T_str, T_varchar, T_nvarchar, T_string>>

NoLength == -1

Unsupported == [kind |-> "None", length |-> NoLength]

StorageType(k) == [kind |-> k, length |-> NoLength]

\* re.search(r'\((\d+)\)', s): the digits of the leftmost "(<digits>)" of s,
\* or <<>> when there is none (\d+ never matches the empty string)
RECURSIVE SearchLength(_, _)
SearchLength(s, i) ==
    IF i > Len(s) THEN <<>>
    ELSE LET n == SpanDigit(s, i + 1)
         IN  IF s[i] = "(" /\ n > 0 /\ i + n + 1 <= Len(s) /\ s[i + n + 1] = ")"
             THEN SubSeq(s, i + 1, i + n)
             ELSE SearchLength(s, i + 1)

map_column_types(col_type) ==
    LET t == Lower(col_type)
    IN  IF t \in {T_int, T_integer} THEN StorageType("Integer")
        ELSE IF t \in {T_bool, T_boolean} THEN StorageType("Boolean")
        ELSE IF t \in {T_decimal, T_money} THEN StorageType("DECIMAL")
        ELSE IF t = T_datetime THEN StorageType("DateTime")
        ELSE IF \E p \in Range(STRING_COL_TYPES) : StartsWith(t, p)
             THEN LET m == SearchLength(t, 1)
                  IN  IF m # <<>> THEN [kind |-> "String", length |-> DigitsValue(m)]
                      ELSE StorageType("String")
        ELSE Unsupported

\* re.fullmatch(rf"{string_type}\(\d+\)", col_type)
FullMatchSized(string_type, col_type) ==
    LET n == Len(string_type)
        d == SpanDigit(col_type, n + 2)
    IN  /\ StartsWith(col_type, string_type)
        /\ Len(col_type) >= n + 3
        /\ col_type[n + 1] = "("
        /\ d > 0
        /\ n + 1 + d + 1 = Len(col_type)
        /\ col_type[Len(col_type)] = ")"

valid_col_type(col_type) ==
    IF \E string_type \in Range(STRING_COL_TYPES) : FullMatchSized(string_type, col_type)
    THEN TRUE
    ELSE col_type \in Range(VALID_COL_TYPES)


typeVars == <<descriptor, mapped, valid>>

(***************************************************************************)
(* Tables as the Storage Engine catalog describes them and as reflection   *)
(* (Table(name, metadata, autoload_with=engine)) returns them: an ordered  *)
(* sequence of columns.                                                    *)
(***************************************************************************)
Col(n, t, pk, nl) == [name |-> n, type |-> t, primary_key |-> pk, nullable |-> nl]

ColumnNames(table) == [i \in 1..Len(table) |-> table[i].name]

HasColumn(table, n) == \E i \in 1..Len(table) : table[i].name = n

ColumnOf(table, n) == table[CHOOSE i \in 1..Len(table) : table[i].name = n]

N_id   == <<"i","d">>
N_name == <<"n","a","m","e">>
N_v    == <<"v">>
N_zz   == <<"z","z">>
N_t    == <<"t">>
N_u    == <<"u">>
N_w    == <<"w">>

\* the tables of the query-side specifications: t(id, name) and u(id, v)
PeopleTable == <<Col(N_id, StorageType("Integer"), TRUE, FALSE),
                 Col(N_name, [kind |-> "String", length |-> 50], FALSE, FALSE)>>

CountsTable == <<Col(N_id, StorageType("Integer"), TRUE, FALSE),
                 Col(N_v, StorageType("Integer"), FALSE, FALSE)>>

(***************************************************************************)
(* Condition Parser (querries.py, _parse_conditions).                      *)
(***************************************************************************)
\* the alternation (=|>|<|>=|<=|!=) of the condition pattern, in the order
\* the re module tries its branches
OperatorAlternatives == << <<"=">>, <<">">>, <<"<">>, <<">","=">>, <<"<","=">>, <<"!","=">> >>

NoMatch == [matched |-> FALSE, column_name |-> <<>>, operator |-> <<>>, value |-> <<>>]

\* re.match(r'(\w+)\s*(=|>|<|>=|<=|!=)\s*(.+)', cond): \w+ and \s* are greedy
\* and no shorter choice of either can make a failed match succeed; the
\* alternation takes its first branch after which \s*(.+) still matches,
\* that is, after which at least one character is left; (.+) runs to the end
MatchCondition(cond) ==
    LET w  == SpanWord(cond, 1)
        j  == 1 + w + SpanSpace(cond, 1 + w)
        ok == {k \in 1..Len(OperatorAlternatives) :
                   /\ OccursAt(cond, OperatorAlternatives[k], j)
                   /\ j + Len(OperatorAlternatives[k]) <= Len(cond)}
    IN  IF w = 0 \/ ok = {} THEN NoMatch
        ELSE LET k  == CHOOSE x \in ok : \A y \in ok : x <= y
                 op == OperatorAlternatives[k]
                 r  == j + Len(op)
                 v  == IF r + SpanSpace(cond, r) <= Len(cond)
                       THEN r + SpanSpace(cond, r) ELSE Len(cond)
             IN  [matched |-> TRUE, column_name |-> SubSeq(cond, 1, w),
                  operator |-> op, value |-> From(cond, v)]

SepAnd == <<" ","a","n","d"," ">>

\* a condition string, or None (the statement has no "where")
NoneCondition == [some |-> FALSE, text |-> <<>>]

SomeCondition(s) == [some |-> TRUE, text |-> s]

\* an empty string and None are both falsy ("if condition:")
Truthy(condition) == condition.some /\ condition.text # <<>>

Filter(c, o, v) == [column |-> c, operator |-> o, value |-> v]

RECURSIVE ParseSegments(_, _)
ParseSegments(table, segs) ==
    IF Len(segs) = 0 THEN [error |-> "none", filters |-> <<>>]
    ELSE LET m == MatchCondition(Strip(Head(segs)))
         IN  IF ~m.matched THEN ParseSegments(table, Tail(segs))
             ELSE IF ~HasColumn(table, m.column_name)
                  THEN [error |-> "AttributeError", filters |-> <<>>]
                  ELSE LET rest == ParseSegments(table, Tail(segs))
                       IN  IF rest.error # "none" THEN rest
                           ELSE [error |-> "none",
                                 filters |-> <<Filter(m.column_name, m.operator, m.value)>>
                                             \o rest.filters]

\* condition_str.split(" and ") on None raises AttributeError
_parse_conditions(table, condition_str) ==
    IF ~condition_str.some THEN [error |-> "AttributeError", filters |-> <<>>]
    ELSE ParseSegments(table, Split(condition_str.text, SepAnd))

parseVars == <<condParts, condText, filters>>

queryVars == <<catalog, rows, pending, session, cmd, text, outcome, calls>>

schemaVars == <<metadata, call, result>>

(***************************************************************************)
(* Storage Engine and session (models.py: engine, session; the calls of    *)
(* querries.py into them).  A database value db is                         *)
(*   [catalog, rows, pending, session]: the catalog, the committed rows,   *)
(* the rows as seen inside the transaction of the one shared session, and  *)
(* the state of that session.                                              *)
(* A row is a tuple of values in the order of the table's columns; an      *)
(* Integer column holds an integer, a String column holds text.            *)
(***************************************************************************)
IsIntColumn(col) == col.type.kind = "Integer"

\* a base-10 integer literal: an optional sign and at least one digit
IsIntLiteral(s) ==
    LET b == IF Len(s) > 0 /\ s[1] \in {"-", "+"} THEN 2 ELSE 1
    IN  Len(s) >= b /\ SpanDigit(s, b) = Len(s) - b + 1

\* int(val) of an integer literal
IntValue(s) ==
    IF s[1] = "-" THEN 0 - DigitsValue(Tail(s))
    ELSE IF s[1] = "+" THEN DigitsValue(Tail(s))
    ELSE DigitsValue(s)

\* the number a text operand stands for when the engine compares it with a
\* numeric column: its leading integer literal, 0 when it has none
NumericPrefix(s) ==
    LET a == 1 + SpanSpace(s, 1)
        b == IF a <= Len(s) /\ s[a] \in {"-", "+"} THEN a + 1 ELSE a
        n == SpanDigit(s, b)
    IN  IF n = 0 THEN 0 ELSE IntValue(SubSeq(s, a, b + n - 1))

CollationOrder == DigitChars \o LowerChars

RankOf == [c \in Range(CollationOrder) |-> CHOOSE i \in 1..Len(CollationOrder) : CollationOrder[i] = c]

Rank(c) == IF c \in DOMAIN RankOf THEN RankOf[c] ELSE 0

RECURSIVE TextLess(_, _)
TextLess(a, b) ==
    IF Len(b) = 0 THEN FALSE
    ELSE IF Len(a) = 0 THEN TRUE
    ELSE IF Rank(Head(a)) # Rank(Head(b)) THEN Rank(Head(a)) < Rank(Head(b))
    ELSE TextLess(Tail(a), Tail(b))

Compare(less, equal, operator) ==
    IF operator = <<"=">> THEN equal
    ELSE IF operator = <<"!","=">> THEN ~equal
    ELSE IF operator = <<"<">> THEN less
    ELSE IF operator = <<"<","=">> THEN less \/ equal
    ELSE IF operator = <<">">> THEN ~less /\ ~equal
    ELSE ~less

\* column <op> value, the value bound as the raw text of the WHERE clause
FilterHolds(table, row, f) ==
    LET i == CHOOSE k \in 1..Len(table) : table[k].name = f.column
    IN  IF IsIntColumn(table[i])
        THEN Compare(row[i] < NumericPrefix(f.value), row[i] = NumericPrefix(f.value), f.operator)
        ELSE Compare(TextLess(row[i], f.value), row[i] = f.value, f.operator)

\* and_(*filters): an empty list of filters restricts nothing
Matches(table, row, fs) == \A k \in 1..Len(fs) : FilterHolds(table, row, fs[k])

PrimaryKeyIndex(table) == {i \in 1..Len(table) : table[i].primary_key}

KeysUnique(table, rs) ==
    \A r1 \in rs, r2 \in rs :
        (\A i \in PrimaryKeyIndex(table) : r1[i] = r2[i]) => r1 = r2

\* the value the engine stores in a column for a bound parameter, or the
\* reason it rejects it; v is [int, i, s]: an integer i or the text s
Bound(isInt, i, s) == [int |-> isInt, i |-> i, s |-> s]

Storable(col, v) == IF IsIntColumn(col) THEN v.int \/ IsIntLiteral(v.s) ELSE ~v.int

Stored(col, v) == IF IsIntColumn(col) THEN (IF v.int THEN v.i ELSE IntValue(v.s)) ELSE v.s

HasKey(data, n) == \E k \in 1..Len(data) : data[k].column = n

\* dict semantics: the last value given for a key
ValueOf(data, n) ==
    data[CHOOSE k \in 1..Len(data) :
            data[k].column = n /\ \A m \in (k + 1)..Len(data) : data[m].column # n].value

\* the row a statement's values make of row r (of nothing, for an INSERT)
Put(table, data, r) ==
    [i \in 1..Len(table) |->
        IF HasKey(data, table[i].name) THEN Stored(table[i], ValueOf(data, table[i].name)) ELSE r[i]]

UpdatedRows(table, data, cur, hit) == (cur \ hit) \cup {Put(table, data, r) : r \in hit}

\* the rows of the statement's table once the statement has run
NewRows(table, cur, stmt) ==
    IF stmt.op = "insert" THEN cur \cup {Put(table, stmt.data, <<>>)}
    ELSE IF stmt.op = "update"
         THEN UpdatedRows(table, stmt.data, cur, {r \in cur : Matches(table, r, stmt.filters)})
    ELSE {r \in cur : ~Matches(table, r, stmt.filters)}

\* why the engine rejects a statement, "none" when it does not: a column
\* the table does not have (found when the statement is compiled), a value
\* that does not fit its column, a column of an INSERT left without value
\* (the generated statements never leave the key out), a duplicate key
EngineError(table, cur, stmt, new) ==
    IF stmt.op = "delete" THEN "none"
    ELSE IF \E k \in 1..Len(stmt.data) : ~HasColumn(table, stmt.data[k].column) THEN "CompileError"
    ELSE IF \E k \in 1..Len(stmt.data) :
                ~Storable(ColumnOf(table, stmt.data[k].column), stmt.data[k].value)
         THEN "DataError"
    ELSE IF stmt.op = "insert" /\ \E i \in 1..Len(table) : ~HasKey(stmt.data, table[i].name)
         THEN "IntegrityError"
    ELSE IF stmt.op = "insert" /\ ~KeysUnique(table, new) THEN "IntegrityError"
    ELSE IF stmt.op = "insert" /\ new = cur THEN "IntegrityError"
    ELSE IF stmt.op = "update" /\ (~KeysUnique(table, new) \/ Cardinality(new) # Cardinality(cur))
         THEN "IntegrityError"
    ELSE "none"

EngineOutcome(db, stmt, err, new) ==
    IF err # "none" THEN [error |-> err, pending |-> db.pending]
    ELSE [error |-> "none", pending |-> [db.pending EXCEPT ![stmt.table] = new]]

EngineRun(db, stmt, table, cur, new) ==
    EngineOutcome(db, stmt, EngineError(table, cur, stmt, new), new)

\* session.execute(stmt) inside the session's transaction: the rows of the
\* transaction afterwards, or the error the statement ends in
EngineExecute(db, stmt) ==
    EngineRun(db, stmt, db.catalog[stmt.table], db.pending[stmt.table],
              NewRows(db.catalog[stmt.table], db.pending[stmt.table], stmt))

\* what execute_query hands back: the kind of its return value or of the
\* exception it raised, the rows of a SELECT, the Storage Engine calls made
\* and the database afterwards
Result(kind, out, cs, db) == [kind |-> kind, rows |-> out, calls |-> cs, db |-> db]

\* session.commit() after a session.execute that returned e.  When the
\* commit raises, the session's transaction stays in its "prepared" state:
\* nothing in querries.py catches the exception or calls session.rollback()
Commit(db, e, fault, cs, done) ==
    IF fault = "commit_lost"
    THEN Result("OperationalError", {}, cs \o <<"execute", "commit">>,
                [db EXCEPT !.pending = db.rows, !.session = "prepared"])
    ELSE IF fault = "commit_open"
    THEN Result("OperationalError", {}, cs \o <<"execute", "commit">>,
                [db EXCEPT !.pending = e.pending, !.session = "prepared"])
    ELSE Result(done, {}, cs \o <<"execute", "commit">>,
                [db EXCEPT !.pending = e.pending, !.rows = e.pending])

Executed(db, e, fault, cs, done) ==
    IF e.error # "none" THEN Result(e.error, {}, cs \o <<"execute">>, db)
    ELSE Commit(db, e, fault, cs, done)

\* The tail of every mutating handler:
\*     session.execute(stmt)
\*     session.commit()
\* with no exception handler and no rollback around it.  fault says where
\* the Storage Engine fails during this statement, if it does:
\*   "execute"      session.execute raises; the statement wrote nothing
\*   "commit_lost"  session.commit raises and the engine dropped the transaction
\*   "commit_open"  session.commit raises and the transaction is still open
\* In each case the exception propagates to the caller and the session is
\* left as the failed call left it.  A session left "prepared" by a failed
\* commit emits no further SQL: the call raises InvalidRequestError.
ExecuteAndCommit(db, stmt, fault, cs, done) ==
    IF db.session = "prepared" THEN Result("InvalidRequestError", {}, cs, db)
    ELSE IF fault = "execute" THEN Result("OperationalError", {}, cs \o <<"execute">>, db)
    ELSE Executed(db, EngineExecute(db, stmt), fault, cs, done)

Faults == {"none", "execute", "commit_lost", "commit_open"}

(***************************************************************************)
(* Schema Manager: tables (models.py, TableFactory).  Base.metadata is the *)
(* one MetaData of the process, shared by every class made from Base; the  *)
(* catalog is what the Storage Engine holds.                               *)
(***************************************************************************)
\* TableModel(col_name, col_type, nullable)
TableModel(n, t, nl) == [col_name |-> n, col_type |-> t, nullable |-> nl]

\* table_attrs[model.col_name] = Column(...): a dict keeps the position of
\* the first assignment to a key and the value of the last
FirstOf(columns, i) == \A j \in 1..(i - 1) : columns[j].col_name # columns[i].col_name

LastOf(columns, n) ==
    columns[CHOOSE i \in 1..Len(columns) :
               /\ columns[i].col_name = n
               /\ \A j \in (i + 1)..Len(columns) : columns[j].col_name # n]

RECURSIVE TableAttrs(_, _)
TableAttrs(columns, i) ==
    IF i > Len(columns) THEN <<>>
    ELSE (IF FirstOf(columns, i) THEN <<LastOf(columns, columns[i].col_name)>> ELSE <<>>)
         \o TableAttrs(columns, i + 1)

\* Column(map_column_types(col_type), primary_key=(col_name == "id"), nullable=nullable)
ColumnFor(model) ==
    Col(model.col_name, map_column_types(model.col_type), model.col_name = N_id, model.nullable)

DeclaredTable(attrs) == [i \in 1..Len(attrs) |-> ColumnFor(attrs[i])]

\* the Storage Engine can create the column: its type is a type (Column(None)
\* has none) and a String has a length (the engine's VARCHAR needs one)
Compilable(col) ==
    /\ col.type # Unsupported
    /\ col.type.kind = "String" => col.type.length # NoLength

\* the tables of a MetaData in the order create_all visits them: by name
RECURSIVE SortedNames(_)
SortedNames(S) ==
    IF S = {} THEN <<>>
    ELSE LET n == CHOOSE x \in S : \A y \in S \ {x} : TextLess(x, y)
         IN  <<n>> \o SortedNames(S \ {n})

\* Base.metadata.create_all(engine): every table of the MetaData that the
\* catalog does not hold is created, one CREATE TABLE after the other; a
\* table the catalog holds is skipped without comparing it; the first table
\* that cannot be created ends the call with the tables before it created
RECURSIVE CreateEach(_, _, _, _)
CreateEach(meta, names, i, cat) ==
    IF i > Len(names) THEN [error |-> "none", catalog |-> cat]
    ELSE IF names[i] \in DOMAIN cat THEN CreateEach(meta, names, i + 1, cat)
    ELSE IF \E k \in 1..Len(meta[names[i]]) : ~Compilable(meta[names[i]][k])
         THEN [error |-> "CompileError", catalog |-> cat]
    ELSE CreateEach(meta, names, i + 1, cat @@ (names[i] :> meta[names[i]]))

create_all(meta, cat) == CreateEach(meta, SortedNames(DOMAIN meta), 1, cat)

SchemaResult(kind, meta, cat) == [kind |-> kind, metadata |-> meta, catalog |-> cat]

Created(r, meta) == SchemaResult(IF r.error = "none" THEN "created" ELSE r.error, meta, r.catalog)

\* type(table_name, (Base,), table_attrs): the table is added to
\* Base.metadata, then the class is mapped, which needs a primary key
Declared(table_name, table, meta, cat) ==
    IF PrimaryKeyIndex(table) = {}
    THEN SchemaResult("ArgumentError", meta @@ (table_name :> table), cat)
    ELSE Created(create_all(meta @@ (table_name :> table), cat), meta @@ (table_name :> table))

\* a name Base.metadata already holds cannot be declared again
create_table_class(table_name, columns, meta, cat) ==
    IF table_name \in DOMAIN meta THEN SchemaResult("InvalidRequestError", meta, cat)
    ELSE Declared(table_name, DeclaredTable(TableAttrs(columns, 1)), meta, cat)

Without(f, n) == [x \in DOMAIN f \ {n} |-> f[x]]

\* the table is reflected into a MetaData of its own and dropped; Base.metadata
\* is not touched; every exception is turned into the returned message
drop_table(table_name, meta, cat) ==
    IF table_name \notin DOMAIN cat THEN SchemaResult("Error dropping table", meta, cat)
    ELSE SchemaResult("has been dropped.", meta, Without(cat, table_name))

\* {column["name"]: column["type"] for column in inspector.get_columns(table_name)}
get_table_columns(table_name, cat) ==
    IF table_name \notin DOMAIN cat THEN [error |-> "NoSuchTableError", columns |-> <<>>]
    ELSE [error |-> "none",
          columns |-> [i \in 1..Len(cat[table_name]) |->
                          <<cat[table_name][i].name, cat[table_name][i].type>>]]

(***************************************************************************)
(* Bounds of the model.                                                    *)
(***************************************************************************)
\* the most segments a generated WHERE clause chains with " and "
MaxSegments == 2

\* the row ids the generated statements use are 1..MaxId
MaxId == 2

(***************************************************************************)
(* Keywords of the query language (querries.py, the patterns below).       *)
(***************************************************************************)
K_select == <<"s","e","l","e","c","t">>
K_insert == <<"i","n","s","e","r","t">>
K_update == <<"u","p","d","a","t","e">>
K_delete == <<"d","e","l","e","t","e">>
K_from   == <<"f","r","o","m">>
K_where  == <<"w","h","e","r","e">>
K_into   == <<"i","n","t","o">>
K_values == <<"v","a","l","u","e","s">>
K_set    == <<"s","e","t">>

(***************************************************************************)
(* The statements typed into the query page (pages/queries.py): the parts  *)
(* a statement is written from, and its text.                              *)
(***************************************************************************)
V_Ann == <<"A","n","n">>
V_bo  == <<"b","o">>
V_x   == <<"x">>

Quote(s) == <<"'">> \o s \o <<"'">>

IdText(k) == <<DigitChars[k + 1]>>

Ids == 1..MaxId

Seg(c, o, v) == [column |-> c, operator |-> o, value |-> v, blank |-> <<" ">>]

SegmentText(g) == g.column \o g.blank \o g.operator \o g.blank \o g.value

ClauseJoin(parts, sep) == Join([i \in 1..Len(parts) |-> SegmentText(parts[i])], sep)

ClauseText(parts) == ClauseJoin(parts, SepAnd)

NoWhere == [mode |-> "none", segs |-> <<>>]

EmptyWhere == [mode |-> "empty", segs |-> <<>>]

Where(segs) == [mode |-> "clause", segs |-> segs]

\* WHERE clauses on the id
IdWheres == {Where(<<Seg(N_id, <<"=">>, IdText(k))>>) : k \in Ids}

\* further WHERE clauses: a two-character operator, an unknown column, a
\* text comparison, two chained segments, and a segment without operator
OtherWheres == {Where(<<Seg(N_id, <<">","=">>, IdText(MaxId))>>),
                Where(<<Seg(N_zz, <<"=">>, IdText(1))>>),
                Where(<<Seg(N_name, <<"=">>, V_bo)>>),
                Where(<<Seg(N_id, <<"=">>, IdText(1)), Seg(N_name, <<"=">>, V_bo)>>),
                Where(<<Seg(N_id, <<>>, IdText(1))>>)}

AllWheres == {NoWhere, EmptyWhere} \cup IdWheres \cup OtherWheres

Command(kind, form, table, columns, values, where) ==
    [kind |-> kind, form |-> form, table |-> table, columns |-> columns,
     values |-> values, where |-> where, upper |-> FALSE]

Selects == {Command("select", "from", N_t, <<>>, <<>>, w) : w \in AllWheres}
           \cup {Command("select", "from", N_w, <<>>, <<>>, NoWhere)}

Inserts ==
    {Command("insert", "columns", N_t, <<N_id, N_name>>, <<IdText(k), Quote(n)>>, NoWhere) :
        k \in Ids, n \in {V_Ann, V_bo}}
    \cup {Command("insert", "nocolumns", N_t, <<>>, <<IdText(k), Quote(V_bo)>>, NoWhere) : k \in Ids}
    \cup {Command("insert", "columns", N_t, <<N_id, N_zz>>, <<IdText(1), Quote(V_bo)>>, NoWhere),
          Command("insert", "columns", N_t, <<N_id, N_name>>, <<Quote(V_x), Quote(V_bo)>>, NoWhere),
          Command("insert", "columns", N_t, <<N_id>>, <<IdText(1), Quote(V_bo)>>, NoWhere),
          Command("insert", "nocolumns", N_t, <<>>, <<IdText(1)>>, NoWhere),
          Command("insert", "nocolumns", N_w, <<>>, <<IdText(1)>>, NoWhere),
          Command("insert", "malformed", N_t, <<>>, <<IdText(1), Quote(V_bo)>>, NoWhere)}

Updates ==
    {Command("update", "set", N_t, <<c[1]>>, <<c[2]>>, w) :
        c \in {<<N_name, Quote(V_bo)>>, <<N_name, Quote(V_Ann)>>, <<N_zz, IdText(1)>>},
        w \in {NoWhere, Where(<<Seg(N_zz, <<"=">>, IdText(1))>>)} \cup IdWheres}
    \cup {Command("update", "set", N_t, <<N_id>>, <<IdText(MaxId)>>, Where(<<Seg(N_id, <<"=">>, IdText(1))>>)),
          Command("update", "malformed", N_t, <<N_name>>, <<Quote(V_bo)>>, NoWhere)}

Deletes == {Command("delete", "from", N_t, <<>>, <<>>, w) : w \in AllWheres}
           \cup {Command("delete", "from", N_u, <<>>, <<>>, NoWhere),
                 Command("delete", "from", N_w, <<>>, <<>>, NoWhere),
                 Command("delete", "malformed", N_t, <<>>, <<>>, NoWhere)}

Others == {Command("other", "selec", N_t, <<>>, <<>>, NoWhere),
           Command("other", "drop", N_t, <<>>, <<>>, NoWhere)}

\* the same statements with their keywords in capitals
Capitals ==
    {[c EXCEPT !.upper = TRUE] :
        c \in {d \in Deletes : d.table = N_t /\ d.where.mode \in {"none", "empty"}}
              \cup {s \in Selects : s.where \in IdWheres}
              \cup {u \in Updates : u.form = "set" /\ u.where = NoWhere /\ u.columns = <<N_name>>}
              \cup {i \in Inserts : i.form = "columns" /\ i.columns = <<N_id, N_name>>
                                    /\ i.values[1] = IdText(1)}
              \cup Others}

Statements == Selects \cup Inserts \cup Updates \cup Deletes \cup Others \cup Capitals

KW(k, c) == IF c.upper THEN Upper(k) ELSE k

Sp == <<" ">>

Comma == <<",", " ">>

WhereText(c) ==
    IF c.where.mode = "none" THEN <<>>
    ELSE IF c.where.mode = "empty" THEN Sp \o KW(K_where, c)
    ELSE Sp \o KW(K_where, c) \o Sp \o ClauseJoin(c.where.segs, KW(SepAnd, c))

Parenthesized(items) == <<"(">> \o Join(items, Comma) \o <<")">>

\* the text of a statement
Render(c) ==
    IF c.kind = "select"
    THEN KW(K_select, c) \o <<" ","*"," ">> \o KW(K_from, c) \o Sp \o c.table \o WhereText(c)
    ELSE IF c.kind = "insert" /\ c.form = "columns"
    THEN KW(K_insert, c) \o Sp \o KW(K_into, c) \o Sp \o c.table \o Sp \o Parenthesized(c.columns)
         \o Sp \o KW(K_values, c) \o Sp \o Parenthesized(c.values)
    ELSE IF c.kind = "insert" /\ c.form = "nocolumns"
    THEN KW(K_insert, c) \o Sp \o KW(K_into, c) \o Sp \o c.table
         \o Sp \o KW(K_values, c) \o Sp \o Parenthesized(c.values)
    ELSE IF c.kind = "insert"
    THEN KW(K_insert, c) \o Sp \o c.table \o Sp \o KW(K_values, c) \o Sp \o Parenthesized(c.values)
    ELSE IF c.kind = "update"
    THEN KW(K_update, c) \o Sp \o c.table \o Sp
         \o (IF c.form = "set" THEN KW(K_set, c) \o Sp ELSE <<>>)
         \o Join([i \in 1..Len(c.columns) |-> c.columns[i] \o <<"=">> \o c.values[i]], Comma)
         \o WhereText(c)
    ELSE IF c.kind = "delete"
    THEN KW(K_delete, c) \o Sp \o (IF c.form = "from" THEN KW(K_from, c) \o Sp ELSE <<>>)
         \o c.table \o WhereText(c)
    ELSE IF c.form = "selec"
    THEN KW(<<"s","e","l","e","c">>, c) \o <<" ","*"," ">> \o KW(K_from, c) \o Sp \o c.table
    ELSE KW(<<"d","r","o","p"," ","t","a","b","l","e">>, c) \o Sp \o c.table

\* the text of every statement of the model
Rendered == [c \in Statements |-> Render(c)]

(***************************************************************************)
(* Query Interpreter (querries.py, QueryExecutor).                         *)
(***************************************************************************)
Min(S) == CHOOSE x \in S : \A y \in S : x <= y

\* \b in front of a word character at position i
BoundaryBefore(s, i) == i = 1 \/ ~IsWordChar(s[i - 1])

\* \b behind a word character, the next position being i
BoundaryAfter(s, i) == i > Len(s) \/ ~IsWordChar(s[i])

\* re.search(r'\bwhere\b\s*(.*)', query), then group(1).strip();
\* None when the pattern is not found
Scan_SearchWhere(query) ==
    LET at == {i \in 1..Len(query) :
                  /\ OccursAt(query, K_where, i)
                  /\ BoundaryBefore(query, i)
                  /\ BoundaryAfter(query, i + Len(K_where))}
    IN  IF at = {} THEN NoneCondition
        ELSE LET e == Min(at) + Len(K_where)
             IN  SomeCondition(Strip(From(query, e + SpanSpace(query, e))))

\* re.search(r'\bfrom\s+(\w+)', query)
Scan_SearchFrom(query) ==
    LET name(i) == i + Len(K_from) + SpanSpace(query, i + Len(K_from))
        at == {i \in 1..Len(query) :
                  /\ OccursAt(query, K_from, i)
                  /\ BoundaryBefore(query, i)
                  /\ SpanSpace(query, i + Len(K_from)) >= 1
                  /\ SpanWord(query, name(i)) >= 1}
    IN  IF at = {} THEN [matched |-> FALSE, table_name |-> <<>>]
        ELSE LET p == name(Min(at))
             IN  [matched |-> TRUE, table_name |-> SubSeq(query, p, p + SpanWord(query, p) - 1)]

\* \(([^)]+)\) at position a: the text between the "(" at a and the first
\* ")" behind it, which must not be empty; close = 0 when there is no match
Group(query, a) ==
    LET cl == {c \in (a + 1)..Len(query) : query[c] = ")"}
    IN  IF a <= Len(query) /\ query[a] = "(" /\ cl # {} /\ Min(cl) > a + 1
        THEN [close |-> Min(cl), body |-> SubSeq(query, a + 1, Min(cl) - 1)]
        ELSE [close |-> 0, body |-> <<>>]

\* insert\s+into\s+(\w+): where the table name starts and how long its run
\* of word characters is; len = 0 when the head does not match
InsertHead(query) ==
    LET s1 == SpanSpace(query, 1 + Len(K_insert))
        i  == 1 + Len(K_insert) + s1
        s2 == SpanSpace(query, i + Len(K_into))
        p  == i + Len(K_into) + s2
    IN  IF StartsWith(query, K_insert) /\ s1 >= 1 /\ OccursAt(query, K_into, i) /\ s2 >= 1
        THEN [start |-> p, len |-> SpanWord(query, p)]
        ELSE [start |-> 0, len |-> 0]

NoInsertMatch == [matched |-> FALSE, table_name |-> <<>>, columns |-> <<>>, values |-> <<>>]

\* \s*values\s*\(([^)]+)\) at position b
ValuesGroup(query, b) ==
    LET v == b + SpanSpace(query, b)
    IN  IF OccursAt(query, K_values, v)
        THEN Group(query, v + Len(K_values) + SpanSpace(query, v + Len(K_values)))
        ELSE [close |-> 0, body |-> <<>>]

\* re.match(r"insert\s+into\s+(\w+)\s*\(([^)]+)\)\s*values\s*\(([^)]+)\)", query)
Scan_MatchWithColumns(query) ==
    LET h  == InsertHead(query)
        g1 == Group(query, h.start + h.len + SpanSpace(query, h.start + h.len))
        g2 == ValuesGroup(query, g1.close + 1)
    IN  IF h.len >= 1 /\ g1.close # 0 /\ g2.close # 0
        THEN [matched |-> TRUE, table_name |-> SubSeq(query, h.start, h.start + h.len - 1),
              columns |-> g1.body, values |-> g2.body]
        ELSE NoInsertMatch

\* re.match(r"insert\s+into\s+(\w+)\s*values\s*\(([^)]+)\)", query): the greedy
\* (\w+) takes the whole run of word characters, or, when "values" does not
\* follow it, gives back a trailing "values" of the run
Scan_MatchWithoutColumns(query) ==
    LET h    == InsertHead(query)
        full == ValuesGroup(query, h.start + h.len)
        k    == h.len - Len(K_values)
        back == IF k >= 1 THEN ValuesGroup(query, h.start + k) ELSE [close |-> 0, body |-> <<>>]
    IN  IF h.len >= 1 /\ full.close # 0
        THEN [matched |-> TRUE, table_name |-> SubSeq(query, h.start, h.start + h.len - 1),
              columns |-> <<>>, values |-> full.body]
        ELSE IF h.len >= 1 /\ k >= 1 /\ OccursAt(query, K_values, h.start + k) /\ back.close # 0
        THEN [matched |-> TRUE, table_name |-> SubSeq(query, h.start, h.start + k - 1),
              columns |-> <<>>, values |-> back.body]
        ELSE NoInsertMatch

\* re.search(r'\bUPDATE\s+(\w+)\s+SET\s+(.*?)(\s+WHERE|$)', query, re.IGNORECASE)
\* on the lower-cased query: the lazy (.*?) ends at the first place where
\* blanks and "where" follow, or at the end of the query
Scan_SearchUpdate(query) ==
    LET name(i) == i + Len(K_update) + SpanSpace(query, i + Len(K_update))
        kw(i)   == name(i) + SpanWord(query, name(i))
                   + SpanSpace(query, name(i) + SpanWord(query, name(i)))
        body(i) == kw(i) + Len(K_set) + SpanSpace(query, kw(i) + Len(K_set))
        at == {i \in 1..Len(query) :
                  /\ OccursAt(query, K_update, i)
                  /\ BoundaryBefore(query, i)
                  /\ SpanSpace(query, i + Len(K_update)) >= 1
                  /\ SpanWord(query, name(i)) >= 1
                  /\ SpanSpace(query, name(i) + SpanWord(query, name(i))) >= 1
                  /\ OccursAt(query, K_set, kw(i))
                  /\ SpanSpace(query, kw(i) + Len(K_set)) >= 1}
    IN  IF at = {} THEN [matched |-> FALSE, table_name |-> <<>>, set_values |-> <<>>]
        ELSE LET i == Min(at)
                 b == body(i)
                 ends == {e \in (b - 1)..Len(query) :
                             \/ e = Len(query)
                             \/ /\ SpanSpace(query, e + 1) >= 1
                                /\ OccursAt(query, K_where, e + 1 + SpanSpace(query, e + 1))}
             IN  [matched |-> TRUE,
                  table_name |-> SubSeq(query, name(i), name(i) + SpanWord(query, name(i)) - 1),
                  set_values |-> SubSeq(query, b, Min(ends))]

(***************************************************************************)
(* The patterns above depend on the query text alone.  Their results for   *)
(* the statements of the model are tabulated once; a text outside the      *)
(* table is scanned directly.  SearchWhere, SearchFrom, MatchWithColumns,  *)
(* MatchWithoutColumns and SearchUpdate are the patterns as the handlers   *)
(* use them.                                                               *)
(***************************************************************************)
StatementTexts == UNION {{Rendered[c], Lower(Strip(Rendered[c]))} : c \in Statements}

Table_Lower == [q \in StatementTexts |-> Lower(Strip(q))]

Table_SearchWhere == [q \in StatementTexts |-> Scan_SearchWhere(q)]

Table_SearchFrom == [q \in StatementTexts |-> Scan_SearchFrom(q)]

Table_MatchWithColumns == [q \in StatementTexts |-> Scan_MatchWithColumns(q)]

Table_MatchWithoutColumns == [q \in StatementTexts |-> Scan_MatchWithoutColumns(q)]

Table_SearchUpdate == [q \in StatementTexts |-> Scan_SearchUpdate(q)]

\* user_query.strip().lower()
Normalize(user_query) ==
    IF user_query \in StatementTexts THEN Table_Lower[user_query] ELSE Lower(Strip(user_query))

SearchWhere(query) ==
    IF query \in StatementTexts THEN Table_SearchWhere[query] ELSE Scan_SearchWhere(query)

SearchFrom(query) ==
    IF query \in StatementTexts THEN Table_SearchFrom[query] ELSE Scan_SearchFrom(query)

MatchWithColumns(query) ==
    IF query \in StatementTexts THEN Table_MatchWithColumns[query] ELSE Scan_MatchWithColumns(query)

MatchWithoutColumns(query) ==
    IF query \in StatementTexts THEN Table_MatchWithoutColumns[query]
    ELSE Scan_MatchWithoutColumns(query)

SearchUpdate(query) ==
    IF query \in StatementTexts THEN Table_SearchUpdate[query] ELSE Scan_SearchUpdate(query)

\* [x.strip() for x in s.split(",")]
SplitStrip(s) == LET ps == Split(s, <<",">>) IN [i \in 1..Len(ps) |-> Strip(ps[i])]

\* [val.strip().strip("'") for val in s.split(",")]
SplitValues(s) == LET ps == Split(s, <<",">>) IN [i \in 1..Len(ps) |-> StripQuote(Strip(ps[i]))]

\* row -> {column name: value}; the columns of the modelled tables hold
\* neither datetime nor Decimal values, which alone are converted
_format_row(row, table) == [i \in 1..Len(table) |-> [column |-> table[i].name, value |-> row[i]]]

\* zip(columns, values) with getattr(table.c, col) and the conversion of the
\* value to the column's python_type; int() is modelled on integer literals
_map_columns_to_values(columns, values, table) ==
    LET n   == IF Len(columns) < Len(values) THEN Len(columns) ELSE Len(values)
        bad == {k \in 1..n :
                   \/ ~HasColumn(table, columns[k])
                   \/ IsIntColumn(ColumnOf(table, columns[k])) /\ ~IsIntLiteral(values[k])}
    IN  IF bad # {}
        THEN [error |-> IF ~HasColumn(table, columns[Min(bad)]) THEN "AttributeError" ELSE "ValueError",
              data |-> <<>>]
        ELSE [error |-> "none",
              data |-> [k \in 1..n |->
                           [column |-> columns[k],
                            value |-> IF IsIntColumn(ColumnOf(table, columns[k]))
                                      THEN Bound(TRUE, IntValue(values[k]), <<>>)
                                      ELSE Bound(FALSE, 0, values[k])]]]

Statement(op, table_name, data, fs) == [op |-> op, table |-> table_name, data |-> data, filters |-> fs]

FormattedRows(table, rs) == {_format_row(r, table) : r \in rs}

\* lines 61-69: the filtered or the plain query, then the formatting
SelectRows(table_name, table, condition, fs, db) ==
    IF Truthy(condition) /\ fs.error # "none" THEN Result(fs.error, {}, <<"reflect">>, db)
    ELSE IF db.session = "prepared" THEN Result("InvalidRequestError", {}, <<"reflect">>, db)
    ELSE IF Truthy(condition)
    THEN Result("rows",
                FormattedRows(table, {x \in db.pending[table_name] : Matches(table, x, fs.filters)}),
                <<"reflect", "query">>, db)
    ELSE Result("rows", FormattedRows(table, db.pending[table_name]), <<"reflect", "query">>, db)

SelectFrom(match, condition, db) ==
    IF ~match.matched THEN Result("None", {}, <<>>, db)
    ELSE IF match.table_name \notin DOMAIN db.catalog
         THEN Result("NoSuchTableError", {}, <<"reflect">>, db)
    ELSE SelectRows(match.table_name, db.catalog[match.table_name], condition,
                    _parse_conditions(db.catalog[match.table_name], condition), db)

_handle_select(query, condition, db, fault) == SelectFrom(SearchFrom(query), condition, db)

\* lines 117-123: the mapping of the values, then the insert
InsertMapped(table_name, mapping, db, fault) ==
    IF mapping.error # "none" THEN Result(mapping.error, {}, <<"reflect">>, db)
    ELSE ExecuteAndCommit(db, Statement("insert", table_name, mapping.data, <<>>),
                          fault, <<"reflect">>, "Row inserted into table")

\* lines 113-115: the count check, which follows the reflection
InsertChecked(table_name, columns, values, table, db, fault) ==
    IF Len(columns) # Len(values)
    THEN Result("Column count does not match values count.", {}, <<"reflect">>, db)
    ELSE InsertMapped(table_name, _map_columns_to_values(columns, values, table), db, fault)

\* Table(table_name, metadata, autoload_with=engine) is evaluated at line 103
\* (form without columns) and again at line 111; the second evaluation finds
\* the table in the same MetaData, so one reflection is recorded
InsertMatched(m, withColumns, db, fault) ==
    IF ~m.matched THEN Result("Invalid INSERT query format.", {}, <<>>, db)
    ELSE IF m.table_name \notin DOMAIN db.catalog
         THEN Result("NoSuchTableError", {}, <<"reflect">>, db)
    ELSE InsertChecked(m.table_name,
                       IF withColumns THEN SplitStrip(m.columns)
                       ELSE ColumnNames(db.catalog[m.table_name]),
                       SplitValues(m.values), db.catalog[m.table_name], db, fault)

InsertForm(mc, query, db, fault) ==
    IF mc.matched THEN InsertMatched(mc, TRUE, db, fault)
    ELSE InsertMatched(MatchWithoutColumns(query), FALSE, db, fault)

_handle_insert(query, db, fault) == InsertForm(MatchWithColumns(query), query, db, fault)

AssignmentParts(items) == [i \in 1..Len(items) |-> Split(items[i], <<"=">>)]

AssignmentData(parts) ==
    IF \E i \in 1..Len(parts) : Len(parts[i]) < 2 THEN [error |-> "IndexError", data |-> <<>>]
    ELSE [error |-> "none",
          data |-> [i \in 1..Len(parts) |->
                       [column |-> Strip(parts[i][1]),
                        value |-> Bound(FALSE, 0, StripQuote(Strip(parts[i][2])))]]]

\* values = [val.strip().strip("'") for val in set_values.split(",")]
\* {item.split("=")[0].strip(): item.split("=")[1].strip().strip("'")}
Assignments(set_values) == AssignmentData(AssignmentParts(SplitValues(set_values)))

\* lines 144-151: the assignments are handed to table.update().values(**data)
\* as they were written; only the WHERE columns are looked up on the table
UpdateParsed(table_name, data, fs, db, fault) ==
    IF data.error # "none" THEN Result(data.error, {}, <<"reflect">>, db)
    ELSE IF fs.error # "none" THEN Result(fs.error, {}, <<"reflect">>, db)
    ELSE ExecuteAndCommit(db, Statement("update", table_name, data.data, fs.filters),
                          fault, <<"reflect">>, "Row updated for table")

UpdateMatched(match, condition, db, fault) ==
    IF ~match.matched THEN Result("Update query not ok.", {}, <<>>, db)
    ELSE IF match.table_name \notin DOMAIN db.catalog
         THEN Result("NoSuchTableError", {}, <<"reflect">>, db)
    ELSE UpdateParsed(match.table_name, Assignments(match.set_values),
                      _parse_conditions(db.catalog[match.table_name], condition), db, fault)

_handle_update(query, condition, db, fault) == UpdateMatched(SearchUpdate(query), condition, db, fault)

\* lines 175-179: the filtered delete
DeleteWhere(table_name, fs, db, fault) ==
    IF fs.error # "none" THEN Result(fs.error, {}, <<"reflect">>, db)
    ELSE ExecuteAndCommit(db, Statement("delete", table_name, <<>>, fs.filters),
                          fault, <<"reflect">>, "Rows deleted in table")

\* the handler without its "if condition:" guard: a DELETE without WHERE is
\* run with an empty list of filters
DeleteMatched_unguarded(match, condition, db, fault) ==
    IF ~match.matched THEN Result("Delete query not ok.", {}, <<>>, db)
    ELSE IF match.table_name \notin DOMAIN db.catalog
         THEN Result("NoSuchTableError", {}, <<"reflect">>, db)
    ELSE DeleteWhere(match.table_name,
                     IF Truthy(condition)
                     THEN _parse_conditions(db.catalog[match.table_name], condition)
                     ELSE [error |-> "none", filters |-> <<>>], db, fault)

DeleteMatched(match, condition, db, fault) ==
    IF ~match.matched THEN Result("Delete query not ok.", {}, <<>>, db)
    ELSE IF match.table_name \notin DOMAIN db.catalog
         THEN Result("NoSuchTableError", {}, <<"reflect">>, db)
    ELSE IF Truthy(condition)
         THEN DeleteWhere(match.table_name,
                          _parse_conditions(db.catalog[match.table_name], condition), db, fault)
    ELSE Result("Missing where statement!", {}, <<"reflect">>, db)

_handle_delete(query, condition, db, fault) == DeleteMatched(SearchFrom(query), condition, db, fault)

Dispatch(query, condition, db, fault) ==
    IF StartsWith(query, K_select) THEN _handle_select(query, condition, db, fault)
    ELSE IF StartsWith(query, K_insert) THEN _handle_insert(query, db, fault)
    ELSE IF StartsWith(query, K_update) THEN _handle_update(query, condition, db, fault)
    ELSE IF StartsWith(query, K_delete) THEN _handle_delete(query, condition, db, fault)
    ELSE Result("None", {}, <<>>, db)

WithCondition(query, db, fault) == Dispatch(query, SearchWhere(query), db, fault)

\* a statement that starts with none of the four keywords falls off the end
\* of the if/elif chain: the function returns None
execute_query(user_query, db, fault) == WithCondition(Normalize(user_query), db, fault)

(***************************************************************************)
(* SpecTypes: map_column_types and valid_col_type applied to descriptors.  *)
(***************************************************************************)
T_blob    == <<"b","l","o","b">>
T_strange == <<"s","t","r","a","n","g","e">>

TypeNames == Range(VALID_COL_TYPES) \cup Range(STRING_COL_TYPES) \cup {T_blob, T_strange, <<>>}

TypeSuffixes == {<<>>, <<"(","5",")">>, <<"(","5","0",")">>, <<"(",")">>,
                 <<"(","x",")">>, <<"(","5",")","x">>, <<" ","(","5",")">>}

TypeDescriptors ==
    {c \o s : c \in UNION {{n, Upper(n), Capitalize(n)} : n \in TypeNames}, s \in TypeSuffixes}

Unset == [kind |-> "Unset", length |-> NoLength]

TypesIdle == descriptor = <<>> /\ mapped = Unset /\ valid = FALSE

ParseIdle == condParts = <<>> /\ condText = NoneCondition /\ filters = [error |-> "unset", filters |-> <<>>]

NoCommand == [kind |-> "none", form |-> "none", table |-> <<>>, columns |-> <<>>,
              values |-> <<>>, where |-> [mode |-> "none", segs |-> <<>>], upper |-> FALSE]

NoOutcome == [kind |-> "unset", rows |-> {}]

\* the database the query-side specifications start from: the tables t and
\* u exist, t is empty and u holds one row
PeopleCatalog == (N_t :> PeopleTable) @@ (N_u :> CountsTable)

PeopleRows == (N_t :> {}) @@ (N_u :> {<<1, 1>>})

NoTables == [n \in {} |-> <<>>]

NoCall == [op |-> "none", table_name |-> <<>>, columns |-> <<>>]

SchemaIdle == metadata = NoTables /\ call = NoCall /\ result = "unset"

QueryIdle == /\ catalog = PeopleCatalog
             /\ rows = PeopleRows
             /\ pending = PeopleRows
             /\ session = "active"
             /\ cmd = NoCommand
             /\ text = <<>>
             /\ outcome = NoOutcome
             /\ calls = <<>>

InitTypes == /\ descriptor \in TypeDescriptors
             /\ mapped = Unset
             /\ valid = FALSE
             /\ ParseIdle
             /\ QueryIdle
             /\ SchemaIdle

\* the presentation layer validates a descriptor (home.py) and the Schema
\* Manager maps it
CheckType(d) == /\ descriptor' = d
                /\ mapped' = map_column_types(d)
                /\ valid' = valid_col_type(d)
                /\ UNCHANGED <<parseVars, queryVars, schemaVars>>

NextTypes == \E d \in TypeDescriptors : CheckType(d)

SpecTypes == InitTypes /\ [][NextTypes]_vars

(***************************************************************************)
(* SpecParse: _parse_conditions applied to generated WHERE clauses.        *)
(***************************************************************************)
Operators == {<<"=">>, <<"!","=">>, <<"<">>, <<"<","=">>, <<">">>, <<">","=">>}

V_18   == <<"1","8">>
V_true == <<"t","r","u","e">>

\* a written segment: column, operator, value and the blanks around the operator
Segments == [column : {N_id, N_name, N_zz}, operator : Operators,
             value : {V_18, V_true}, blank : {<<>>, <<" ">>}]

Clauses == UNION {[1..n -> Segments] : n \in 1..MaxSegments}

InitParse == /\ TypesIdle
             /\ condParts \in Clauses
             /\ condText = SomeCondition(ClauseText(condParts))
             /\ filters = [error |-> "unset", filters |-> <<>>]
             /\ QueryIdle
             /\ SchemaIdle

ParseConditions == /\ filters.error = "unset"
                   /\ filters' = _parse_conditions(PeopleTable, condText)
                   /\ UNCHANGED <<condParts, condText, typeVars, queryVars, schemaVars>>

NextParse == ParseConditions

SpecParse == InitParse /\ [][NextParse]_vars

(***************************************************************************)
(* SpecQuery: execute_query run on the statements, against the shared      *)
(* session.                                                                *)
(***************************************************************************)
InitQuery == TypesIdle /\ ParseIdle /\ QueryIdle /\ SchemaIdle

\* the operator types a statement into the empty query box
Submit(c) == /\ cmd = NoCommand
             /\ cmd' = c
             /\ text' = Rendered[c]
             /\ UNCHANGED <<catalog, rows, pending, session, outcome, calls, typeVars, parseVars, schemaVars>>

\* the Execute button: QueryExecutor.execute_query(query), run to its return
\* or to the exception it raises
Execute(fault) ==
    /\ cmd # NoCommand
    /\ outcome = NoOutcome
    /\ LET r == execute_query(text, [catalog |-> catalog, rows |-> rows, pending |-> pending,
                                     session |-> session], fault)
       IN  /\ outcome' = [kind |-> r.kind, rows |-> r.rows]
           /\ calls' = r.calls
           /\ rows' = r.db.rows
           /\ pending' = r.db.pending
           /\ session' = r.db.session
    /\ UNCHANGED <<catalog, cmd, text, typeVars, parseVars, schemaVars>>

\* the operator empties the query box; the page is drawn again without a result
Clear == /\ outcome # NoOutcome
         /\ cmd' = NoCommand
         /\ text' = <<>>
         /\ outcome' = NoOutcome
         /\ calls' = <<>>
         /\ UNCHANGED <<catalog, rows, pending, session, typeVars, parseVars, schemaVars>>

\* the operator opens the home page, which ends in session.close(): the
\* session's transaction is rolled back and the session can be used again
CloseSession == /\ cmd = NoCommand
                /\ pending' = rows
                /\ session' = "active"
                /\ UNCHANGED <<catalog, rows, cmd, text, outcome, calls, typeVars, parseVars,
                                schemaVars>>

NextQuery == \/ \E c \in Statements : Submit(c)
             \/ \E fault \in Faults : Execute(fault)
             \/ Clear
             \/ CloseSession

SpecQuery == InitQuery /\ [][NextQuery]_vars

HasRun == outcome # NoOutcome

(***************************************************************************)
(* SpecSchema: create_table_class and drop_table called in any order, in a *)
(* process that may find tables in the catalog when it starts.             *)
(***************************************************************************)
TableNames == {N_t, N_u}

C_id      == TableModel(N_id, T_int, FALSE)
C_name    == TableModel(N_name, T_varchar \o <<"(","5","0",")">>, TRUE)
C_v       == TableModel(N_v, T_integer, TRUE)
C_long    == TableModel(N_name, T_str, TRUE)
C_blob    == TableModel(N_v, T_blob, TRUE)
C_again   == TableModel(N_name, T_bool, TRUE)

\* the column lists the operator submits: with and without a column "id",
\* with a text column without length, with an unsupported type, with a
\* column name given twice
ColumnLists == {<<C_id, C_name>>, <<C_id, C_v>>, <<C_name, C_v>>, <<C_id, C_long>>,
                <<C_id, C_blob>>, <<C_id, C_name, C_again>>}

StartCatalogs == {NoTables, N_t :> PeopleTable}

NoRows(cat) == [n \in DOMAIN cat |-> {}]

InitSchema == /\ TypesIdle
              /\ ParseIdle
              /\ catalog \in StartCatalogs
              /\ rows = NoRows(catalog)
              /\ pending = NoRows(catalog)
              /\ session = "active"
              /\ cmd = NoCommand
              /\ text = <<>>
              /\ outcome = NoOutcome
              /\ calls = <<>>
              /\ SchemaIdle

\* rows of the tables of cat: those there were, none for a new table
RowsIn(cat, rs) == [n \in DOMAIN cat |-> IF n \in DOMAIN rs THEN rs[n] ELSE {}]

\* the "Create table" button (home.py): create_table_class run to its return
\* or to the exception it raises
CreateTable(table_name, columns) ==
    /\ LET r == create_table_class(table_name, columns, metadata, catalog)
       IN  /\ result' = r.kind
           /\ metadata' = r.metadata
           /\ catalog' = r.catalog
           /\ rows' = RowsIn(r.catalog, rows)
           /\ pending' = RowsIn(r.catalog, pending)
    /\ call' = [op |-> "create", table_name |-> table_name, columns |-> columns]
    /\ UNCHANGED <<session, cmd, text, outcome, calls, typeVars, parseVars>>

DropTable(table_name) ==
    /\ LET r == drop_table(table_name, metadata, catalog)
       IN  /\ result' = r.kind
           /\ metadata' = r.metadata
           /\ catalog' = r.catalog
           /\ rows' = RowsIn(r.catalog, rows)
           /\ pending' = RowsIn(r.catalog, pending)
    /\ call' = [op |-> "drop", table_name |-> table_name, columns |-> <<>>]
    /\ UNCHANGED <<session, cmd, text, outcome, calls, typeVars, parseVars>>

NextSchema == \/ \E n \in TableNames, cs \in ColumnLists : CreateTable(n, cs)
              \/ \E n \in TableNames : DropTable(n)

SpecSchema == InitSchema /\ [][NextSchema]_vars

\* the statement in the query box, by its written parts
DeleteWithoutWhere(c) ==
    /\ c.kind = "delete" /\ c.form = "from"
    /\ c.where.mode \in {"none", "empty"}
    /\ c.table \in DOMAIN catalog

UpdateWithoutWhere(c) ==
    /\ c.kind = "update" /\ c.form = "set"
    /\ c.where.mode = "none"
    /\ c.table \in DOMAIN catalog
    /\ \A i \in 1..Len(c.columns) : HasColumn(catalog[c.table], c.columns[i])

\* the value a written literal stands for in a column: an integer literal
\* in an Integer column is its number, a quoted text is the text between
\* the quotes, exactly as written
Written(col, literal) ==
    IF IsIntColumn(col) THEN IntValue(literal) ELSE StripQuote(literal)

ColumnsOf(c) == IF c.form = "columns" THEN c.columns ELSE ColumnNames(catalog[c.table])

\* the literal an INSERT gives for column n
LiteralFor(c, n) == c.values[CHOOSE k \in 1..Len(ColumnsOf(c)) : ColumnsOf(c)[k] = n]

\* the row an INSERT was written to add, as a SELECT would show it
WrittenRow(c) ==
    [i \in 1..Len(catalog[c.table]) |->
        [column |-> catalog[c.table][i].name,
         value |-> Written(catalog[c.table][i], LiteralFor(c, catalog[c.table][i].name))]]

\* SELECT * FROM <table> WHERE id = <k>, as typed
SelectById(table, k) ==
    Render(Command("select", "from", table, <<>>, <<>>, Where(<<Seg(N_id, <<"=">>, k)>>)))

Database == [catalog |-> catalog, rows |-> rows, pending |-> pending, session |-> session]

UnrecognizedStatement(c) == c.kind = "other"

CountMismatch(c) ==
    /\ c.kind = "insert" /\ c.form \in {"columns", "nocolumns"}
    /\ c.table \in DOMAIN catalog
    /\ Len(c.values) # Len(ColumnsOf(c))

Mutating(c) == c.kind \in {"insert", "update", "delete"}

\* the statement names a column its table does not have
UnknownColumn(c) ==
    /\ Mutating(c) /\ c.form \in {"columns", "set", "from"}
    /\ c.table \in DOMAIN catalog
    /\ \/ \E i \in 1..Len(c.columns) : ~HasColumn(catalog[c.table], c.columns[i])
       \/ \E i \in 1..Len(c.where.segs) :
              /\ c.where.segs[i].operator # <<>>
              /\ ~HasColumn(catalog[c.table], c.where.segs[i].column)

(***************************************************************************)
(* C1: a DELETE FROM t without WHERE clause, or with an empty one, returns *)
(* the MissingWhere outcome and leaves the rows of every table, committed  *)
(* and in the session, as they were before the call.                       *)
(***************************************************************************)
C1_DeleteNeedsWhere ==
    [][(DeleteWithoutWhere(cmd) /\ outcome = NoOutcome /\ outcome' # NoOutcome)
          => (outcome'.kind = "Missing where statement!" /\ rows' = rows /\ pending' = pending)]_vars

C1_Refused ==
    /\ DeleteWithoutWhere(cmd)
    /\ outcome.kind = "Missing where statement!"
    /\ rows[cmd.table] # {}

(***************************************************************************)
(* C2: UPDATE t SET c=v without WHERE clause, on an existing table and     *)
(* column, does not end in an error, and afterwards every row of t has c   *)
(* equal to v.  (A statement the Storage Engine failed on is left out.)    *)
(***************************************************************************)
C2_UpdateWithoutWhereUpdatesAll ==
    (UpdateWithoutWhere(cmd) /\ HasRun /\ outcome.kind # "OperationalError")
        => /\ outcome.kind = "Row updated for table"
           /\ \A r \in rows[cmd.table] : \A i \in 1..Len(catalog[cmd.table]) :
                  catalog[cmd.table][i].name = cmd.columns[1]
                      => r[i] = Written(catalog[cmd.table][i], cmd.values[1])

(***************************************************************************)
(* C4: after a successful INSERT of a row with id k, SELECT * FROM t WHERE *)
(* id = k returns exactly one row, whose values are the values written in  *)
(* the INSERT (text exactly as written).                                   *)
(***************************************************************************)
C4_InsertThenSelect ==
    (cmd.kind = "insert" /\ outcome.kind = "Row inserted into table")
        => execute_query(SelectById(cmd.table, LiteralFor(cmd, N_id)), Database, "none").rows
               = {WrittenRow(cmd)}

(***************************************************************************)
(* C5: a statement with an unrecognized leading keyword yields an explicit *)
(* error outcome, an INSERT whose value count differs from the column      *)
(* count yields ColumnCountMismatch, and neither makes a Storage Engine    *)
(* call.                                                                   *)
(***************************************************************************)
C5_MalformedRejectedUntouched ==
    /\ (HasRun /\ UnrecognizedStatement(cmd)) => (outcome.kind # "None" /\ calls = <<>>)
    /\ (HasRun /\ CountMismatch(cmd))
           => (outcome.kind = "Column count does not match values count." /\ calls = <<>>)

(***************************************************************************)
(* C6: when the Storage Engine fails during the execute or the commit of a *)
(* mutating statement, the statement's changes are rolled back: the        *)
(* committed rows are the rows before the statement and nothing of the     *)
(* statement is left in the session's transaction.                         *)
(***************************************************************************)
C6_FailedStatementRolledBack ==
    [][(Mutating(cmd) /\ outcome = NoOutcome /\ outcome'.kind = "OperationalError")
          => (rows' = rows /\ pending' = rows')]_vars

(***************************************************************************)
(* C7: an INSERT, UPDATE or DELETE that names a column its table does not  *)
(* have ends in ColumnNotFound before any mutating Storage Engine call,    *)
(* and the rows of the table are unchanged.                                *)
(***************************************************************************)
C7_UnknownColumnBeforeMutation ==
    (UnknownColumn(cmd) /\ HasRun)
        => (outcome.kind = "AttributeError" /\ "execute" \notin Range(calls))

\* the column list has unique names and only supported type descriptors
UniqueNames(columns) ==
    \A i \in 1..Len(columns), j \in 1..Len(columns) :
        columns[i].col_name = columns[j].col_name => i = j

Supported(columns) == \A i \in 1..Len(columns) : map_column_types(columns[i].col_type) # Unsupported

\* one (column name, resolved storage type) pair per spec, in declared order
Resolved(columns) ==
    [i \in 1..Len(columns) |-> <<columns[i].col_name, map_column_types(columns[i].col_type)>>]

(***************************************************************************)
(* C9: create_table on a name the catalog does not hold, with unique       *)
(* column names and supported types (with or without a column "id"),       *)
(* succeeds, and list_columns then returns one (name, resolved type) pair  *)
(* per spec, in declared order, the primary key being the column "id".     *)
(***************************************************************************)
C9_CreateThenList ==
    [][(/\ call'.op = "create"
        /\ call'.table_name \notin DOMAIN catalog
        /\ UniqueNames(call'.columns)
        /\ Supported(call'.columns))
          => /\ result' = "created"
             /\ get_table_columns(call'.table_name, catalog')
                    = [error |-> "none", columns |-> Resolved(call'.columns)]
             /\ \A i \in 1..Len(call'.columns) :
                    catalog'[call'.table_name][i].primary_key <=> call'.columns[i].col_name = N_id]_vars

(***************************************************************************)
(* C10: create_table fails with SchemaConflict exactly when the catalog    *)
(* holds a table of that name, and then leaves the catalog unchanged; with *)
(* an unrecognized type descriptor it fails and leaves the catalog         *)
(* unchanged.                                                              *)
(***************************************************************************)
C10_ConflictIffInCatalog ==
    [][call'.op = "create"
          => /\ result' = "InvalidRequestError" <=> call'.table_name \in DOMAIN catalog
             /\ call'.table_name \in DOMAIN catalog => catalog' = catalog
             /\ ~Supported(call'.columns) => (result' # "created" /\ catalog' = catalog)]_vars

\* the statement carries a WHERE clause with at least one written segment
WithWhereClause(c) ==
    /\ c.kind \in {"delete", "update"} /\ c.form \in {"from", "set"}
    /\ c.where.mode = "clause"
    /\ c.table \in DOMAIN catalog

\* the segment is written as <identifier> <op> <value>
WellFormed(g) == g.operator \in Operators

\* the row satisfies the segment as it is written
SegmentHolds(table, row, g) ==
    /\ WellFormed(g)
    /\ HasColumn(table, g.column)
    /\ FilterHolds(table, row, Filter(g.column, g.operator, g.value))

ClauseHolds(table, row, segs) == \A i \in 1..Len(segs) : SegmentHolds(table, row, segs[i])

(***************************************************************************)
(* C11: a DELETE or UPDATE with a non-empty WHERE clause deletes or        *)
(* modifies only rows that satisfy every Condition written in the clause,  *)
(* and mutates no row when a segment of the clause is not of the form      *)
(* <identifier> <op> <value>.                                              *)
(***************************************************************************)
C11_OnlyMatchingRowsChange ==
    [][(WithWhereClause(cmd) /\ outcome = NoOutcome /\ outcome' # NoOutcome)
          => /\ \A r \in (rows[cmd.table] \ rows'[cmd.table])
                         \cup (pending[cmd.table] \ pending'[cmd.table]) :
                    ClauseHolds(catalog[cmd.table], r, cmd.where.segs)
             /\ (\E i \in 1..Len(cmd.where.segs) : ~WellFormed(cmd.where.segs[i]))
                    => (rows' = rows /\ pending' = pending)]_vars

(***************************************************************************)
(* C8: valid_type accepts the same grammar as map_type: valid_col_type(D)  *)
(* is true if and only if map_column_types(D) is a storage type, for every *)
(* descriptor D (any letter case, with or without a length suffix).        *)
(***************************************************************************)
C8_ValidIffMapped == mapped # Unset => (valid <=> mapped # Unsupported)

(***************************************************************************)
(* C3: every written segment <col> <op> <value> is parsed to a Condition   *)
(* with exactly that column, that operator and that value text.            *)
(***************************************************************************)
C3_ParsedAsWritten ==
    filters.error = "none" =>
        filters.filters = [i \in 1..Len(condParts) |->
                              Filter(condParts[i].column, condParts[i].operator, condParts[i].value)]

=============================================================================
